---------------------------- MODULE Spec2Model ----------------------------
(***************************************************************************)
(* Model of docs/_docs/code-snippets/cpp/src/compute_run.cpp: the          *)
(* PrintWord compute function, its BinaryType<PrintWord> descriptor and    *)
(* main, which starts a node, registers the function and runs one          *)
(* PrintWord per word of a fixed sentence.                                 *)
(*                                                                         *)
(* Characters are their ASCII codes, strings are sequences of codes, and   *)
(* a PrintWord is the record [word |-> <string>].                          *)
(***************************************************************************)
EXTENDS Integers, Sequences, FiniteSets

(* ------------------------------ bounds -------------------------------- *)

\* Number of cluster nodes a job may be executed on.
NumNodes == 2

\* Longest word field enumerated for the descriptor's functions.
MaxWordLen == 2

(* --------------------------- program text ----------------------------- *)

\* "Print words on different cluster nodes"
Sentence ==
    << 80, 114, 105, 110, 116, 32, 119, 111, 114, 100, 115, 32, 111, 110, 32,
       100, 105, 102, 102, 101, 114, 101, 110, 116, 32, 99, 108, 117, 115,
       116, 101, 114, 32, 110, 111, 100, 101, 115 >>

\* The literal "PrintWord" GetTypeId hashes.
TypeIdLiteral == << 80, 114, 105, 110, 116, 87, 111, 114, 100 >>

\* The literal "PrintWord" GetTypeName assigns.
TypeNameLiteral == << 80, 114, 105, 110, 116, 87, 111, 114, 100 >>

\* "word": the name of PrintWord's only field.
FieldNameWord == << 119, 111, 114, 100 >>

\* '\n', what std::endl inserts before flushing.
NewLine == 10

\* Header bytes of the binary protocol for a string and for null.
IGNITE_TYPE_STRING == 9
IGNITE_HDR_NULL == 101

Nodes == 1..NumNodes

\* Characters of the enumerated word fields: 'a' and ' '.
Alphabet == {97, 32}

RECURSIVE StringsUpTo(_)
StringsUpTo(n) ==
    IF n = 0 THEN {<<>>}
    ELSE LET shorter == StringsUpTo(n - 1)
         IN  shorter \cup {Append(s, c) : s \in shorter, c \in Alphabet}

(* ----------------------------- PrintWord ------------------------------ *)

\* PrintWord(): the word member is default-constructed, an empty string.
PrintWordDefault == [word |-> <<>>]

\* PrintWord(const std::string& word)
PrintWord(word) == [word |-> word]

PrintWords == {PrintWord(w) : w \in StringsUpTo(MaxWordLen)}

\* A mutant of Call: the line end is forgotten.
CallNoEndl(obj, out) == [obj |-> obj, out |-> out \o obj.word]

\* PrintWord::Call: std::cout << word << std::endl.  Gives the object after
\* the call and standard output after the call.
Call(obj, out) == [obj |-> obj, out |-> out \o obj.word \o <<NewLine>>]

(* ----------------------- binary reader and writer --------------------- *)

\* A 32-bit value as four bytes, least significant first.
Int32Bytes(v) ==
    << v % 256, (v \div 256) % 256, (v \div 65536) % 256, (v \div 16777216) % 256 >>

Int32OfBytes(b) == b[1] + 256 * b[2] + 65536 * b[3] + 16777216 * b[4]

\* BinaryRawWriter::WriteString(const std::string&): the string header, the
\* length and the characters are appended to the stream.
WriteString(stream, val) ==
    stream \o <<IGNITE_TYPE_STRING>> \o Int32Bytes(Len(val)) \o val

\* BinaryRawReader::ReadString(): the string at the head of the stream; a
\* null header reads as the empty string.
ReadString(stream) ==
    IF stream[1] = IGNITE_HDR_NULL THEN <<>>
    ELSE LET len == Int32OfBytes(SubSeq(stream, 2, 5))
         IN  SubSeq(stream, 6, 5 + len)

\* GetBinaryStringHashCode: hash = 31 * hash + tolower(c) over the
\* characters, in int32_t arithmetic.  The running hash is kept as two
\* 16-bit halves so that no intermediate value leaves 32 bits.
LowerCase(c) == IF c >= 65 /\ c <= 90 THEN c + 32 ELSE c

RECURSIVE HashHalves(_, _, _)
HashHalves(str, hi, lo) ==
    IF str = <<>> THEN <<hi, lo>>
    ELSE LET l == 31 * lo + LowerCase(Head(str))
             h == 31 * hi + (l \div 65536)
         IN  HashHalves(Tail(str), h % 65536, l % 65536)

GetBinaryStringHashCode(str) ==
    LET hl == HashHalves(str, 0, 0)
    IN  IF hl[1] >= 32768 THEN (hl[1] - 65536) * 65536 + hl[2]
        ELSE hl[1] * 65536 + hl[2]

(* ------------------------ BinaryType<PrintWord> ----------------------- *)

\* A mutant of GetTypeId: the literal is misspelt ("PrintWors").
GetTypeIdTypo ==
    GetBinaryStringHashCode(<< 80, 114, 105, 110, 116, 87, 111, 114, 115 >>)

GetTypeId == GetBinaryStringHashCode(TypeIdLiteral)

\* GetTypeName(dst): the value dst holds afterwards.
GetTypeName == TypeNameLiteral

GetFieldId(name) == GetBinaryStringHashCode(name)

\* A mutant of GetHashCode: a content-based hash.
GetHashCodeOfWord(obj) == GetBinaryStringHashCode(obj.word) + Len(obj.word)

GetHashCode(obj) == 0

\* A mutant of IsNull: the empty word is taken for null.
IsNullWhenEmpty(obj) == obj.word = <<>>

IsNull(obj) == FALSE

\* GetNull(dst): the value dst holds afterwards, PrintWord("").
GetNull(dst) == PrintWord(<<>>)

\* Write(writer, obj): the stream after writer.RawWriter().WriteString(obj.word).
Write(stream, obj) == WriteString(stream, obj.word)

\* A mutant of Read: the string is read and dropped.
ReadDropsValue(stream, dst) == dst

\* Read(reader, dst): the value dst holds afterwards.
Read(stream, dst) == [dst EXCEPT !.word = ReadString(stream)]

(* ------------------------- splitting the sentence --------------------- *)

\* std::isspace in the "C" locale.
IsSpace(c) == c \in {32, 9, 10, 11, 12, 13}

\* operator>>(istream&, string&) on a stream read up to position pos (the
\* next character is s[pos]): leading white space is skipped, which stops
\* at the first other character, or past the end of the stream ...
SkipWs(s, pos) ==
    LET rest == {i \in pos..Len(s) : ~IsSpace(s[i])} \cup {Len(s) + 1}
    IN  CHOOSE i \in rest : \A j \in rest : i <= j

\* ... and characters are then extracted up to the next white space or the
\* end of the stream: the position extraction stops at.
ExtractEnd(s, pos) ==
    LET rest == {i \in pos..Len(s) : IsSpace(s[i])} \cup {Len(s) + 1}
    IN  CHOOSE i \in rest : \A j \in rest : i <= j

(* ------------------------------- state -------------------------------- *)

VARIABLES
    pc,          \* where main is: "Start", "Register", "Split", "Loop",
                 \* "Running" (inside compute.Run), "done", "failed"
    started,     \* Ignition::Start has returned an Ignite instance
    registered,  \* type ids registered through the binding
    pos,         \* read position of the string stream iss, from 1
    words,       \* the vector of words
    idx,         \* position of the range-for loop in words, from 1
    wire,        \* the job of the compute.Run call in progress
    job,         \* the PrintWord a node last executed, after its Call
    stdout,      \* standard output of every node
    dispatched,  \* log: one entry per compute.Run call made
    returned,    \* log: number of compute.Run calls that have returned
    calls,       \* log: the client API calls main has made, in order
    failedAt,    \* the call that threw, "none" while none has
    bObj,        \* descriptor functions: the source PrintWord
    bDst,        \* descriptor functions: the destination PrintWord
    bStream,     \* descriptor functions: the data Write produced
    bName,       \* descriptor functions: the string GetTypeName filled
    bOp,         \* descriptor functions: the function called last
    bRet,        \* its int32_t result
    bBool,       \* its bool result
    bArg,        \* the name GetFieldId was called with
    bFrom,       \* the object it was called with: "obj", "dst" or "null"
    bSentinel,   \* bDst holds what GetNull put there
    bIds,        \* log: every value GetTypeId has returned
    bHashed      \* log: every <<object, hash code>> GetHashCode has produced

mainVars ==
    <<pc, started, registered, pos, words, idx, wire, job, stdout, dispatched,
      returned, calls, failedAt>>

binaryVars ==
    <<bObj, bDst, bStream, bName, bOp, bRet, bBool, bArg, bFrom, bSentinel,
      bIds, bHashed>>

vars == <<mainVars, binaryVars>>

NoJob == [stage |-> "none", typeId |-> 0, data |-> <<>>]

MainInit ==
    /\ pc = "Start"
    /\ started = FALSE
    /\ registered = {}
    /\ pos = 1
    /\ words = <<>>
    /\ idx = 1
    /\ wire = NoJob
    /\ job = PrintWordDefault
    /\ stdout = [n \in Nodes |-> <<>>]
    /\ dispatched = <<>>
    /\ returned = 0
    /\ calls = <<>>
    /\ failedAt = "none"

BinaryIdle ==
    /\ bStream = <<>>
    /\ bName = <<>>
    /\ bOp = "none"
    /\ bRet = 0
    /\ bBool = FALSE
    /\ bArg = <<>>
    /\ bFrom = "none"
    /\ bSentinel = FALSE
    /\ bIds = {}
    /\ bHashed = {}

(* -------------------------------- main -------------------------------- *)

\* Ignite ignite = Ignition::Start(cfg);
IgnitionStart ==
    /\ pc = "Start"
    /\ started' = TRUE
    /\ calls' = Append(calls, "Start")
    /\ pc' = "Register"
    /\ UNCHANGED <<registered, pos, words, idx, wire, job, stdout, dispatched,
                   returned, failedAt, binaryVars>>

\* Ignition::Start throws: nothing in main catches it.
IgnitionStartFail ==
    /\ pc = "Start"
    /\ calls' = Append(calls, "Start")
    /\ failedAt' = "Start"
    /\ pc' = "failed"
    /\ UNCHANGED <<started, registered, pos, words, idx, wire, job, stdout,
                   dispatched, returned, binaryVars>>

\* A mutant of RegisterComputeFunc: the registration is left out.
RegisterSkipped ==
    /\ pc = "Register"
    /\ pc' = "Split"
    /\ UNCHANGED <<started, registered, pos, words, idx, wire, job, stdout,
                   dispatched, returned, calls, failedAt, binaryVars>>

\* ignite.GetBinding().RegisterComputeFunc<PrintWord>();
RegisterComputeFunc ==
    /\ pc = "Register"
    /\ registered' = registered \cup {GetTypeId}
    /\ calls' = Append(calls, "Register")
    /\ pc' = "Split"
    /\ UNCHANGED <<started, pos, words, idx, wire, job, stdout, dispatched,
                   returned, failedAt, binaryVars>>

\* RegisterComputeFunc throws.
RegisterComputeFuncFail ==
    /\ pc = "Register"
    /\ calls' = Append(calls, "Register")
    /\ failedAt' = "Register"
    /\ pc' = "failed"
    /\ UNCHANGED <<started, registered, pos, words, idx, wire, job, stdout,
                   dispatched, returned, binaryVars>>

\* ignite.GetCompute(), then the vector words is filled from the stream over
\* the sentence: one step of the istream_iterator extracts the next word.
ExtractNextWord ==
    /\ pc = "Split"
    /\ SkipWs(Sentence, pos) <= Len(Sentence)
    /\ LET from == SkipWs(Sentence, pos)
           to == ExtractEnd(Sentence, from)
       IN  /\ words' = Append(words, SubSeq(Sentence, from, to - 1))
           /\ pos' = to
    /\ UNCHANGED <<pc, started, registered, idx, wire, job, stdout, dispatched,
                   returned, calls, failedAt, binaryVars>>

\* Extraction fails at the end of the stream: the vector is complete and
\* the range-for loop starts at its first word.
EndOfStream ==
    /\ pc = "Split"
    /\ SkipWs(Sentence, pos) > Len(Sentence)
    /\ pos' = Len(Sentence) + 1
    /\ idx' = 1
    /\ pc' = "Loop"
    /\ UNCHANGED <<started, registered, words, wire, job, stdout, dispatched,
                   returned, calls, failedAt, binaryVars>>

\* A mutant of RunCall: the vector is walked from its end.
RunCallReversed ==
    /\ pc = "Loop"
    /\ idx <= Len(words)
    /\ LET obj == PrintWord(words[Len(words) + 1 - idx])
       IN  /\ wire' = [stage |-> "sent", typeId |-> GetTypeId,
                       data |-> Write(<<>>, obj)]
           /\ dispatched' = Append(dispatched,
                  [index |-> Len(words) + 1 - idx, word |-> obj.word, node |-> 0])
    /\ calls' = Append(calls, "Run")
    /\ pc' = "Running"
    /\ UNCHANGED <<started, registered, pos, words, idx, job, stdout, returned,
                   failedAt, binaryVars>>

\* compute.Run(PrintWord(word)) is entered for the loop's current word: the
\* PrintWord is constructed, written and sent to the cluster.
RunCall ==
    /\ pc = "Loop"
    /\ idx <= Len(words)
    /\ LET obj == PrintWord(words[idx])
       IN  /\ wire' = [stage |-> "sent", typeId |-> GetTypeId,
                       data |-> Write(<<>>, obj)]
           /\ dispatched' = Append(dispatched,
                  [index |-> idx, word |-> obj.word, node |-> 0])
    /\ calls' = Append(calls, "Run")
    /\ pc' = "Running"
    /\ UNCHANGED <<started, registered, pos, words, idx, job, stdout, returned,
                   failedAt, binaryVars>>

\* A node of the cluster reads the job and calls it.
NodeExecute(n) ==
    /\ wire.stage = "sent"
    /\ wire.typeId \in registered
    /\ LET dst == Read(wire.data, PrintWordDefault)
           r == Call(dst, stdout[n])
       IN  /\ stdout' = [stdout EXCEPT ![n] = r.out]
           /\ job' = r.obj
    /\ wire' = [wire EXCEPT !.stage = "executed"]
    /\ dispatched' = [dispatched EXCEPT ![Len(dispatched)].node = n]
    /\ UNCHANGED <<pc, started, registered, pos, words, idx, returned, calls,
                   failedAt, binaryVars>>

\* A mutant of RunReturn: the loop steps over the next word.
RunReturnSkipsNext ==
    /\ pc = "Running"
    /\ wire.stage = "executed"
    /\ wire' = NoJob
    /\ returned' = returned + 1
    /\ idx' = idx + 2
    /\ pc' = "Loop"
    /\ UNCHANGED <<started, registered, pos, words, job, stdout, dispatched,
                   calls, failedAt, binaryVars>>

\* compute.Run returns once the job has run; the loop moves to the next word.
RunReturn ==
    /\ pc = "Running"
    /\ wire.stage = "executed"
    /\ wire' = NoJob
    /\ returned' = returned + 1
    /\ idx' = idx + 1
    /\ pc' = "Loop"
    /\ UNCHANGED <<started, registered, pos, words, job, stdout, dispatched,
                   calls, failedAt, binaryVars>>

\* A mutant of RunFail: the error is swallowed and the loop goes on.
RunFailSwallowed ==
    /\ pc = "Running"
    /\ failedAt' = "Run"
    /\ idx' = idx + 1
    /\ pc' = "Loop"
    /\ UNCHANGED <<started, registered, pos, words, wire, job, stdout, dispatched,
                   returned, calls, binaryVars>>

\* compute.Run throws, before or after a node has run the job.
RunFail ==
    /\ pc = "Running"
    /\ failedAt' = "Run"
    /\ pc' = "failed"
    /\ UNCHANGED <<started, registered, pos, words, idx, wire, job, stdout,
                   dispatched, returned, calls, binaryVars>>

\* A mutant of LoopExit: the loop ends one word early.
LoopExitEarly ==
    /\ pc = "Loop"
    /\ idx >= Len(words)
    /\ pc' = "done"
    /\ UNCHANGED <<started, registered, pos, words, idx, wire, job, stdout,
                   dispatched, returned, calls, failedAt, binaryVars>>

\* The range-for loop is past the last word: main returns.
LoopExit ==
    /\ pc = "Loop"
    /\ idx > Len(words)
    /\ pc' = "done"
    /\ UNCHANGED <<started, registered, pos, words, idx, wire, job, stdout,
                   dispatched, returned, calls, failedAt, binaryVars>>

Init == MainInit /\ BinaryIdle /\ bObj = PrintWordDefault /\ bDst = PrintWordDefault

Next ==
    \/ IgnitionStart
    \/ IgnitionStartFail
    \/ RegisterComputeFunc
    \/ RegisterComputeFuncFail
    \/ ExtractNextWord
    \/ EndOfStream
    \/ RunCall
    \/ \E n \in Nodes : NodeExecute(n)
    \/ RunReturn
    \/ RunFail
    \/ LoopExit

Spec == Init /\ [][Next]_vars

\* Every call main makes comes back, by returning or by throwing, and a job
\* that was sent is run.
SpecLive == Init /\ [][Next]_vars /\ WF_vars(Next)

(* --------------------- the descriptor's functions --------------------- *)

\* The functions of BinaryType<PrintWord> called in any order on a source
\* object and a destination object drawn from PrintWords.

Target(from) == IF from = "obj" THEN bObj ELSE bDst

\* The result variables of a call that produces neither.
NoResult == bRet' = 0 /\ bBool' = FALSE /\ bArg' = <<>> /\ bFrom' = "none"

DoGetTypeId ==
    /\ bOp' = "GetTypeId"
    /\ bRet' = GetTypeId
    /\ bIds' = bIds \cup {GetTypeId}
    /\ bBool' = FALSE /\ bArg' = <<>> /\ bFrom' = "none"
    /\ UNCHANGED <<bObj, bDst, bStream, bName, bSentinel, bHashed, mainVars>>

DoGetTypeName ==
    /\ bOp' = "GetTypeName"
    /\ bName' = GetTypeName
    /\ NoResult
    /\ UNCHANGED <<bObj, bDst, bStream, bSentinel, bIds, bHashed, mainVars>>

\* GetFieldId is called with the field's name or with the type's name.
DoGetFieldId(name) ==
    /\ bOp' = "GetFieldId"
    /\ bArg' = name
    /\ bRet' = GetFieldId(name)
    /\ bBool' = FALSE /\ bFrom' = "none"
    /\ UNCHANGED <<bObj, bDst, bStream, bName, bSentinel, bIds, bHashed,
                   mainVars>>

DoGetHashCode(from) ==
    /\ bOp' = "GetHashCode"
    /\ bFrom' = from
    /\ bRet' = GetHashCode(Target(from))
    /\ bHashed' = bHashed \cup {<<Target(from), GetHashCode(Target(from))>>}
    /\ bBool' = FALSE /\ bArg' = <<>>
    /\ UNCHANGED <<bObj, bDst, bStream, bName, bSentinel, bIds, mainVars>>

DoIsNull(from) ==
    /\ bOp' = "IsNull"
    /\ bFrom' = IF from = "dst" /\ bSentinel THEN "null" ELSE from
    /\ bBool' = IsNull(Target(from))
    /\ bRet' = 0 /\ bArg' = <<>>
    /\ UNCHANGED <<bObj, bDst, bStream, bName, bSentinel, bIds, bHashed,
                   mainVars>>

DoGetNull ==
    /\ bOp' = "GetNull"
    /\ bDst' = GetNull(bDst)
    /\ bSentinel' = TRUE
    /\ NoResult
    /\ UNCHANGED <<bObj, bStream, bName, bIds, bHashed, mainVars>>

\* Write(writer, bObj) on a fresh writer.
DoWrite ==
    /\ bOp' = "Write"
    /\ bStream' = Write(<<>>, bObj)
    /\ NoResult
    /\ UNCHANGED <<bObj, bDst, bName, bSentinel, bIds, bHashed, mainVars>>

\* Read(reader, bDst) on a reader over the written data.
DoRead ==
    /\ bStream # <<>>
    /\ bOp' = "Read"
    /\ bDst' = Read(bStream, bDst)
    /\ bSentinel' = FALSE
    /\ NoResult
    /\ UNCHANGED <<bObj, bStream, bName, bIds, bHashed, mainVars>>

InitBinary == MainInit /\ BinaryIdle /\ bObj \in PrintWords /\ bDst \in PrintWords

NextBinary ==
    \/ DoGetTypeId
    \/ DoGetTypeName
    \/ \E name \in {FieldNameWord, TypeNameLiteral} : DoGetFieldId(name)
    \/ \E from \in {"obj", "dst"} : DoGetHashCode(from)
    \/ \E from \in {"obj", "dst"} : DoIsNull(from)
    \/ DoGetNull
    \/ DoWrite
    \/ DoRead

SpecBinary == InitBinary /\ [][NextBinary]_vars

(* ------------------- what the properties speak about ------------------ *)

\* The words of a string, said without the extraction loop: a word starts
\* at every character that is not white space and follows white space or
\* the start of the string, and runs to the next white space or the end.
WordStarts(s) ==
    {i \in 1..Len(s) : ~IsSpace(s[i]) /\ (i = 1 \/ IsSpace(s[i - 1]))}

WordEnds(s) ==
    {i \in 1..Len(s) : ~IsSpace(s[i]) /\ (i = Len(s) \/ IsSpace(s[i + 1]))}

NumWords(s) == Cardinality(WordStarts(s))

\* The k-th element of a set of positions, counted from 1.
Kth(S, k) == CHOOSE i \in S : Cardinality({j \in S : j < i}) = k - 1

NthWord(s, k) == SubSeq(s, Kth(WordStarts(s), k), Kth(WordEnds(s), k))

IsRun(call) == call = "Run"

\* Number of compute.Run calls main has made.
RunCalls == Len(SelectSeq(calls, IsRun))

\* What the jobs run on node n have printed: a line per job, in the order
\* the jobs were dispatched.
RECURSIVE LinesOf(_, _)
LinesOf(log, n) ==
    IF log = <<>> THEN <<>>
    ELSE LET e == log[Len(log)]
             before == LinesOf(SubSeq(log, 1, Len(log) - 1), n)
         IN  IF e.node = n THEN before \o e.word \o <<NewLine>> ELSE before

\* The dispatches a node has run.
Executed == {i \in DOMAIN dispatched : dispatched[i].node # 0}

\* Every position of the vector was dispatched once, with the word the
\* sentence has there.
EveryWordOnce ==
    /\ Len(dispatched) = NumWords(Sentence)
    /\ \A k \in 1..NumWords(Sentence) :
          /\ Cardinality({i \in DOMAIN dispatched : dispatched[i].index = k}) = 1
          /\ \E i \in DOMAIN dispatched :
                dispatched[i].index = k /\ dispatched[i].word = NthWord(Sentence, k)

(* ------------------------------ properties ---------------------------- *)

\* C1, as stated: when main has run to its end on the fixed sentence it has
\* made exactly five compute.Run calls.
C1_FiveDispatches == pc = "done" => RunCalls = 5

\* C1, amended: when main has run to its end on the fixed sentence it has
\* made exactly six compute.Run calls, one for each of "Print", "words",
\* "on", "different", "cluster", "nodes".
C1_SixDispatches == pc = "done" => RunCalls = 6 /\ Len(dispatched) = 6

C1_Witness == pc = "done" /\ RunCalls > 0

\* C2: the i-th compute.Run call carries a PrintWord whose word is the i-th
\* white-space separated word of the sentence, and a call is made only when
\* every earlier call has returned.
C2_SequentialInOrder ==
    /\ \A i \in DOMAIN dispatched :
          /\ i <= NumWords(Sentence)
          /\ dispatched[i].word = NthWord(Sentence, i)
    /\ wire.stage # "none" =>
          Read(wire.data, PrintWordDefault).word = NthWord(Sentence, Len(dispatched))
    /\ Len(dispatched) <= returned + 1
    /\ pc = "Loop" => returned = Len(dispatched)

C2_Witness == Len(dispatched) = 6 /\ returned = 5 /\ pc = "Running"

\* C3: Write of a PrintWord followed by Read of the written data into any
\* destination PrintWord leaves the destination with the source's word, the
\* empty word included.
C3_RoundTrip == bOp = "Read" => bDst.word = bObj.word

C3_Witness == bOp = "Read" /\ bObj.word = <<97, 32>> /\ bDst.word = <<97, 32>>

\* C4: the connection is started before the type is registered, the type
\* is registered before the first compute.Run call, and no compute.Run call
\* is made while the connection is not started or the type is unregistered.
C4_StepOrder ==
    /\ registered # {} => started
    /\ dispatched # <<>> => started /\ GetTypeId \in registered
    /\ pc = "Running" => started /\ GetTypeId \in registered
    /\ \A i \in DOMAIN calls :
          /\ calls[i] = "Start" => i = 1
          /\ calls[i] = "Register" => i = 2 /\ calls[1] = "Start"
          /\ calls[i] = "Run" => i > 2 /\ calls[1] = "Start" /\ calls[2] = "Register"

C4_Witness == Len(dispatched) = 1 /\ wire.stage = "sent" /\ calls = <<"Start", "Register", "Run">>

\* C5: once a call has failed main makes no further call: the failed call
\* is not repeated, no later word is dispatched, and nothing is dispatched
\* at all when Ignition::Start or RegisterComputeFunc failed.
C5_NoRecovery ==
    [][ /\ failedAt # "none" =>
              /\ calls' = calls
              /\ Len(dispatched') = Len(dispatched)
              /\ failedAt' = failedAt
              /\ pc' = "failed"
        /\ failedAt' = "Start" => calls' = <<"Start">> /\ dispatched' = <<>>
        /\ failedAt' = "Register" =>
              calls' = <<"Start", "Register">> /\ dispatched' = <<>>
        /\ failedAt' = "Run" => pc' = "failed"
      ]_vars

C5_Witness == failedAt = "Run" /\ pc = "failed" /\ Len(dispatched) = 3

\* C6: every Call appends the stored word and a line end to standard output
\* once and leaves the word as it was, so each node's output is one line per
\* job it ran, and every compute.Run call that returned printed the word its
\* PrintWord was constructed with.
C6_CallPrintsWord ==
    /\ \A n \in Nodes : stdout[n] = LinesOf(dispatched, n)
    /\ \A i \in 1..returned : dispatched[i].node # 0
    /\ Executed # {} =>
          job.word = dispatched[CHOOSE i \in Executed : \A j \in Executed : j <= i].word

C6_Witness ==
    /\ returned = 2
    /\ dispatched[1].node = 1
    /\ dispatched[2].node = 1
    /\ stdout[1] = <<80, 114, 105, 110, 116, 10, 119, 111, 114, 100, 115, 10>>

\* C7: GetHashCode returns 0 for every PrintWord, whatever its word: any two
\* PrintWords have the same hash code.
C7_HashCodeZero ==
    /\ \A p \in bHashed : p[2] = 0
    /\ bOp = "GetHashCode" => bRet = 0

C7_Witness == \E p \in bHashed : \E q \in bHashed : p[1].word # q[1].word

\* C8: GetNull leaves PrintWord("") in its destination and IsNull is false
\* for every PrintWord, the one GetNull produced included.
C8_NullNotRecognised ==
    /\ bSentinel => bDst = PrintWord(<<>>)
    /\ bOp = "IsNull" => bBool = FALSE

C8_Witness == bOp = "IsNull" /\ bFrom = "null" /\ bSentinel /\ bBool = FALSE

\* C9: GetTypeId is the hash of the string GetTypeName writes, is the same
\* on every call, and is what GetFieldId gives for that string.
C9_TypeIdFromName ==
    /\ bOp = "GetTypeId" /\ bName # <<>> => bRet = GetBinaryStringHashCode(bName)
    /\ Cardinality(bIds) <= 1
    /\ bOp = "GetFieldId" /\ bName # <<>> /\ bArg = bName => \A id \in bIds : bRet = id

C9_Witness == bOp = "GetFieldId" /\ bName # <<>> /\ bArg = bName /\ bIds # {}

\* C10: when no call fails and every call returns, main runs to its end,
\* and by then every word of the sentence has been dispatched exactly once.
C10_TerminatesAllDispatched ==
    /\ [](failedAt = "none") => <>(pc = "done" /\ EveryWordOnce)
    /\ [](pc = "done" => EveryWordOnce)

C10_Witness == pc = "done" /\ returned = NumWords(Sentence) /\ EveryWordOnce

=============================================================================
